---------------------------- MODULE Spec2Model ----------------------------
(***************************************************************************)
(* Model of src/app_ui.py: the structural validation core                  *)
(* (validate_inputs, structural_engine, generate_signature) and the        *)
(* execution block of the Streamlit script that drives them.               *)
(*                                                                         *)
(* Python floats are IEEE-754 binary64 values.  They are modelled          *)
(* bit-exactly: a finite value is sign, 53-bit significand and exponent,   *)
(* every arithmetic operation is rounded to nearest, ties to even, with    *)
(* gradual underflow, overflow to infinity and NaN.  Significands do not   *)
(* fit TLC's integers, so they are little-endian sequences of limbs.       *)
(***************************************************************************)
EXTENDS Integers, Sequences, FiniteSets, TLC

(***************************************************************************)
(* The state of the script (src/app_ui.py, lines 89-186).                  *)
(***************************************************************************)
VARIABLES
    load, gamma, area, fc, phi,  \* the widgets' values
    run,                         \* the button: True in the run its click starts
    pc,                          \* where the script is
    errors,                      \* validate_inputs' result
    shown,                       \* the error lines written so far
    Pu, Pn, phi_Pn, dc_ratio, status,
    result_payload, signature,
    report,                      \* what the report section wrote
    exception,                   \* the exception that ended the run, if any
    calls,                       \* the core functions called in this run, in order
    clock,                       \* the time datetime.utcnow() returns
    last                         \* the last run that wrote a report


(***************************************************************************)
(* Natural numbers of arbitrary size: little-endian limb sequences in base *)
(* LimbBase with no leading (high) zero limb; zero is the empty sequence.  *)
(***************************************************************************)
LimbBits == 14
LimbBase == 2 ^ LimbBits

RECURSIVE BTrim(_)
BTrim(a) ==
    IF a = <<>> THEN <<>>
    ELSE IF a[Len(a)] = 0 THEN BTrim(SubSeq(a, 1, Len(a) - 1)) ELSE a

RECURSIVE BFromInt(_)
BFromInt(n) ==
    IF n = 0 THEN <<>> ELSE <<n % LimbBase>> \o BFromInt(n \div LimbBase)

RECURSIVE BAddC(_, _, _)
BAddC(a, b, c) ==
    IF a = <<>> /\ b = <<>> THEN (IF c = 0 THEN <<>> ELSE <<c>>)
    ELSE LET x == IF a = <<>> THEN 0 ELSE Head(a)
             y == IF b = <<>> THEN 0 ELSE Head(b)
             t == x + y + c
         IN  <<t % LimbBase>>
                \o BAddC(IF a = <<>> THEN a ELSE Tail(a),
                         IF b = <<>> THEN b ELSE Tail(b), t \div LimbBase)

BAdd(a, b) == BAddC(a, b, 0)

RECURSIVE BSubC(_, _, _)
BSubC(a, b, c) ==
    IF a = <<>> THEN <<>>
    ELSE LET y == IF b = <<>> THEN 0 ELSE Head(b)
             t == Head(a) - y - c
         IN  <<t % LimbBase>>
                \o BSubC(Tail(a), IF b = <<>> THEN b ELSE Tail(b),
                         IF t < 0 THEN 1 ELSE 0)

\* a - b for a >= b
BSub(a, b) == BTrim(BSubC(a, b, 0))

RECURSIVE BCmpFrom(_, _, _)
BCmpFrom(a, b, i) ==
    IF i = 0 THEN 0
    ELSE IF a[i] < b[i] THEN -1
    ELSE IF a[i] > b[i] THEN 1
    ELSE BCmpFrom(a, b, i - 1)

\* -1, 0 or 1 as a < b, a = b, a > b
BCmp(a, b) ==
    IF Len(a) < Len(b) THEN -1
    ELSE IF Len(a) > Len(b) THEN 1
    ELSE BCmpFrom(a, b, Len(a))

RECURSIVE BMulSmallC(_, _, _)
BMulSmallC(a, k, c) ==
    IF a = <<>> THEN (IF c = 0 THEN <<>> ELSE <<c>>)
    ELSE LET t == Head(a) * k + c
         IN  <<t % LimbBase>> \o BMulSmallC(Tail(a), k, t \div LimbBase)

\* a * k + c for 0 <= k, c < LimbBase
BMulSmall(a, k, c) == BTrim(BMulSmallC(a, k, c))

RECURSIVE BShiftLimbs(_, _)
BShiftLimbs(a, n) ==
    IF a = <<>> \/ n = 0 THEN a ELSE BShiftLimbs(<<0>> \o a, n - 1)

RECURSIVE BMul(_, _)
BMul(a, b) ==
    IF a = <<>> \/ b = <<>> THEN <<>>
    ELSE BAdd(BMulSmall(a, Head(b), 0), BShiftLimbs(BMul(a, Tail(b)), 1))

RECURSIVE IntBitLen(_)
IntBitLen(n) == IF n = 0 THEN 0 ELSE 1 + IntBitLen(n \div 2)

BitLen(a) ==
    IF a = <<>> THEN 0 ELSE LimbBits * (Len(a) - 1) + IntBitLen(a[Len(a)])

\* bit i (bit 0 is the lowest) of a
BBit(a, i) ==
    LET k == i \div LimbBits + 1
    IN  IF k > Len(a) THEN 0 ELSE (a[k] \div 2 ^ (i % LimbBits)) % 2

\* a * 2^n
BShl(a, n) == BShiftLimbs(BMulSmall(a, 2 ^ (n % LimbBits), 0), n \div LimbBits)

RECURSIVE BShrBits(_, _)
BShrBits(a, r) ==
    IF a = <<>> THEN <<>>
    ELSE <<Head(a) \div 2 ^ r
           + ((IF Len(a) > 1 THEN a[2] ELSE 0) % 2 ^ r) * 2 ^ (LimbBits - r)>>
         \o BShrBits(Tail(a), r)

\* floor(a / 2^n)
BShr(a, n) ==
    IF n \div LimbBits >= Len(a) THEN <<>>
    ELSE BTrim(BShrBits(SubSeq(a, n \div LimbBits + 1, Len(a)), n % LimbBits))

\* whether the n lowest bits of a are all zero
BLowZero(a, n) ==
    LET d == n \div LimbBits
        r == n % LimbBits
    IN  /\ \A i \in 1..d : i > Len(a) \/ a[i] = 0
        /\ d + 1 > Len(a) \/ a[d + 1] % 2 ^ r = 0

BIsOdd(a) == a # <<>> /\ a[1] % 2 = 1

\* Restoring long division over the bits i down to lo of n, with r the
\* remainder so far: <<the quotient's bits for this range, the new remainder>>.
RECURSIVE BDivBits(_, _, _, _, _, _)
BDivBits(n, d, i, lo, qd, r) ==
    IF i < lo THEN <<qd, r>>
    ELSE LET r2 == BMulSmall(r, 2, BBit(n, i))
         IN  IF BCmp(r2, d) >= 0
             THEN BDivBits(n, d, i - 1, lo, 2 * qd + 1, BSub(r2, d))
             ELSE BDivBits(n, d, i - 1, lo, 2 * qd, r2)

\* One quotient limb per step, from limb j of n down to limb 1.
RECURSIVE BDivLimbs(_, _, _, _, _)
BDivLimbs(n, d, j, q, r) ==
    IF j = 0 THEN <<BTrim(q), r>>
    ELSE LET t == BDivBits(n, d, j * LimbBits - 1, (j - 1) * LimbBits, 0, r)
         IN  BDivLimbs(n, d, j - 1, <<t[1]>> \o q, t[2])

\* <<floor(n / d), n mod d>> for d > 0
BDivMod(n, d) ==
    IF Len(n) < Len(d) THEN <<(<<>>), n>>
    ELSE BDivLimbs(n, d, Len(n) - Len(d) + 1, <<>>,
                   SubSeq(n, Len(n) - Len(d) + 2, Len(n)))

(***************************************************************************)
(* Python float: IEEE-754 binary64.  A value is a record                   *)
(*   [k |-> "fin" | "inf" | "nan", s |-> sign bit, m |-> significand,      *)
(*    e |-> exponent]                                                      *)
(* and a finite value is (-1)^s * m * 2^e with m < 2^Precision, in         *)
(* canonical form: m >= 2^(Precision-1) unless e = MinExp (subnormals and  *)
(* zero).  Results are rounded to nearest, ties to even.                   *)
(***************************************************************************)
Precision == 53
MinExp == -1074
MaxExp == 971

NaN == [k |-> "nan", s |-> 0, m |-> <<>>, e |-> 0]
Inf(s) == [k |-> "inf", s |-> s, m |-> <<>>, e |-> 0]
Zero(s) == [k |-> "fin", s |-> s, m |-> <<>>, e |-> MinExp]

IsNaN(x) == x.k = "nan"
IsInf(x) == x.k = "inf"
IsFinite(x) == x.k = "fin"
IsZero(x) == x.k = "fin" /\ x.m = <<>>
Xor(a, b) == (a + b) % 2

\* The binary64 value nearest to (-1)^s * n * 2^e (n > 0), where sticky says
\* that the exact value lies strictly above n * 2^e and below (n+1) * 2^e.
RoundPack(s, n, e, sticky) ==
    LET nb == BitLen(n)
        e0 == e + nb - Precision
        et == IF e0 < MinExp THEN MinExp ELSE e0
        sh == et - e
    IN  IF sh <= 0
        THEN IF et > MaxExp THEN Inf(s)
             ELSE [k |-> "fin", s |-> s, m |-> BShl(n, -sh), e |-> et]
        ELSE LET q == BShr(n, sh)
                 half == BBit(n, sh - 1) = 1
                 low == sticky \/ ~BLowZero(n, sh - 1)
                 up == half /\ (low \/ BIsOdd(q))
                 m1 == IF up THEN BAdd(q, <<1>>) ELSE q
                 carry == BitLen(m1) > Precision
                 m2 == IF carry THEN BShr(m1, 1) ELSE m1
                 e2 == IF carry THEN et + 1 ELSE et
             IN  IF e2 > MaxExp THEN Inf(s)
                 ELSE IF m2 = <<>> THEN Zero(s)
                 ELSE [k |-> "fin", s |-> s, m |-> m2, e |-> e2]

\* The binary64 value nearest to (-1)^s * (n / d) * 2^e for n, d > 0.
FRat(s, n, d, e) ==
    LET a == Precision + 2 - BitLen(n) + BitLen(d)
        qr == IF a >= 0 THEN BDivMod(BShl(n, a), d) ELSE BDivMod(n, BShl(d, -a))
    IN  RoundPack(s, qr[1], e - a, qr[2] # <<>>)

\* float(n) for a Python int n
FInt(n) ==
    IF n = 0 THEN Zero(0)
    ELSE IF n < 0 THEN RoundPack(1, BFromInt(-n), 0, FALSE)
    ELSE RoundPack(0, BFromInt(n), 0, FALSE)

\* The value of a decimal literal equal to n / d (n, d > 0), e.g. 0.85 = 85/100
FDec(n, d) == FRat(0, BFromInt(n), BFromInt(d), 0)

\* 2.0 ** k for MinExp <= k <= MaxExp + Precision - 1
FPow2(p) ==
    IF p - (Precision - 1) < MinExp
    THEN [k |-> "fin", s |-> 0, m |-> BShl(<<1>>, p - MinExp), e |-> MinExp]
    ELSE [k |-> "fin", s |-> 0, m |-> BShl(<<1>>, Precision - 1),
          e |-> p - (Precision - 1)]

FNeg(x) == IF IsNaN(x) THEN x ELSE [x EXCEPT !.s = 1 - @]

\* x * y
FMul(x, y) ==
    IF IsNaN(x) \/ IsNaN(y) THEN NaN
    ELSE IF IsInf(x) \/ IsInf(y)
         THEN IF IsZero(x) \/ IsZero(y) THEN NaN ELSE Inf(Xor(x.s, y.s))
    ELSE IF IsZero(x) \/ IsZero(y) THEN Zero(Xor(x.s, y.s))
    ELSE RoundPack(Xor(x.s, y.s), BMul(x.m, y.m), x.e + y.e, FALSE)

\* x / y for y # 0 (Python raises ZeroDivisionError when y = 0)
FDiv(x, y) ==
    IF IsNaN(x) \/ IsNaN(y) THEN NaN
    ELSE IF IsInf(x) THEN (IF IsInf(y) THEN NaN ELSE Inf(Xor(x.s, y.s)))
    ELSE IF IsInf(y) \/ IsZero(x) THEN Zero(Xor(x.s, y.s))
    ELSE FRat(Xor(x.s, y.s), x.m, y.m, x.e - y.e)

\* comparison of magnitudes of two non-NaN values
FMagCmp(x, y) ==
    IF IsInf(x) THEN (IF IsInf(y) THEN 0 ELSE 1)
    ELSE IF IsInf(y) THEN -1
    ELSE IF x.e < y.e THEN -1
    ELSE IF x.e > y.e THEN 1
    ELSE BCmp(x.m, y.m)

\* -1, 0, 1 for two non-NaN values (-0.0 equals 0.0)
FCmp(x, y) ==
    IF IsZero(x) /\ IsZero(y) THEN 0
    ELSE IF x.s # y.s THEN (IF x.s = 1 THEN -1 ELSE 1)
    ELSE IF x.s = 0 THEN FMagCmp(x, y) ELSE -FMagCmp(x, y)

\* Python's <, <=, == on floats: every comparison with NaN is False
FLt(x, y) == ~IsNaN(x) /\ ~IsNaN(y) /\ FCmp(x, y) < 0
FLe(x, y) == ~IsNaN(x) /\ ~IsNaN(y) /\ FCmp(x, y) <= 0
FEq(x, y) == ~IsNaN(x) /\ ~IsNaN(y) /\ FCmp(x, y) = 0

\* round(x, ndigits) for ndigits >= 0: the decimal value of x rounded half-even
\* to ndigits places, then the nearest binary64 to that decimal.
PyRound(x, ndigits) ==
    IF ~IsFinite(x) \/ IsZero(x) \/ x.e >= 0 THEN x
    ELSE LET p == BMul(x.m, BFromInt(10 ^ ndigits))
             sh == -x.e
             q == BShr(p, sh)
             half == BBit(p, sh - 1) = 1
             low == ~BLowZero(p, sh - 1)
             kk == IF half /\ (low \/ BIsOdd(q)) THEN BAdd(q, <<1>>) ELSE q
         IN  IF kk = <<>> THEN Zero(x.s)
             ELSE FRat(x.s, kk, BFromInt(10 ^ ndigits), 0)

(***************************************************************************)
(* The core engine (src/app_ui.py, lines 19-54).                           *)
(***************************************************************************)
\* the fixed texts, with the source's non-ASCII characters spelled out
MsgLoad == "Axial Load must be > 0 kN"
MsgArea == "Section Area must be > 0 mm2"
MsgFc == "Concrete strength must be > 0 MPa"
MsgPhi == "Strength reduction factor phi must be between 0 and 1"
MsgGamma == "Load factor gamma should be >= 1.0"

\* the literals of the core, as floats
Lit0 == FInt(0)
Lit1 == FInt(1)
Lit085 == FDec(85, 100)
Lit1000 == FInt(1000)

\* the rules as the code tests them, one per if statement
RuleLoad(v_load) == FLe(v_load, Lit0)
RuleArea(v_area) == FLe(v_area, Lit0)
RuleFc(v_fc) == FLe(v_fc, Lit0)
\* a phi rule whose upper bound is exclusive
RulePhi_upper_exclusive(v_phi) == ~(FLt(Lit0, v_phi) /\ FLt(v_phi, Lit1))
RulePhi(v_phi) == ~(FLt(Lit0, v_phi) /\ FLe(v_phi, Lit1))
RuleGamma(v_gamma) == FLt(v_gamma, Lit1)

\* a validator that stops at the first violated rule
validate_inputs_first_only(v_load, v_area, v_fc, v_phi, v_gamma) ==
    IF RuleLoad(v_load) THEN <<MsgLoad>>
    ELSE IF RuleArea(v_area) THEN <<MsgArea>>
    ELSE IF RuleFc(v_fc) THEN <<MsgFc>>
    ELSE IF RulePhi(v_phi) THEN <<MsgPhi>>
    ELSE IF RuleGamma(v_gamma) THEN <<MsgGamma>>
    ELSE <<>>

validate_inputs(v_load, v_area, v_fc, v_phi, v_gamma) ==
    (IF RuleLoad(v_load) THEN <<MsgLoad>> ELSE <<>>)
    \o (IF RuleArea(v_area) THEN <<MsgArea>> ELSE <<>>)
    \o (IF RuleFc(v_fc) THEN <<MsgFc>> ELSE <<>>)
    \o (IF RulePhi(v_phi) THEN <<MsgPhi>> ELSE <<>>)
    \o (IF RuleGamma(v_gamma) THEN <<MsgGamma>> ELSE <<>>)

\* a name that is not bound yet (the script has not assigned it in this run)
Unset == [k |-> "unset", s |-> 0, m |-> <<>>, e |-> 0]

EnginePu(load_kN, gamma_) == FMul(gamma_, load_kN)
\* a nominal capacity left in N, not divided by 1000
EnginePn_unscaled(area_mm2, fc_mpa) == FMul(FMul(Lit085, fc_mpa), area_mm2)
EnginePn(area_mm2, fc_mpa) ==
    FDiv(FMul(FMul(Lit085, fc_mpa), area_mm2), Lit1000)
EnginePhiPn(phi_, pn) == FMul(phi_, pn)
EngineStatus(dc) == IF FLe(dc, Lit1) THEN "PASS" ELSE "FAIL"

\* lines 46-49, with the values of Pu, Pn and phi_Pn at hand: the tuple
\* returned, or the exception the division raises (Python raises
\* ZeroDivisionError for any float divided by zero).
EngineReturn(pu, pn, ppn, dc) ==
    [exc |-> "", Pu |-> pu, Pn |-> pn, phi_Pn |-> ppn, dc_ratio |-> dc,
     status |-> EngineStatus(dc)]
EngineDivide(pu, pn, ppn) ==
    IF IsZero(ppn)
    THEN [exc |-> "ZeroDivisionError", Pu |-> pu, Pn |-> pn, phi_Pn |-> ppn,
          dc_ratio |-> Unset, status |-> ""]
    ELSE EngineReturn(pu, pn, ppn, FDiv(pu, ppn))
EngineCapacity(pu, pn, phi_) == EngineDivide(pu, pn, EnginePhiPn(phi_, pn))

structural_engine(load_kN, area_mm2, fc_mpa, phi_, gamma_) ==
    EngineCapacity(EnginePu(load_kN, gamma_), EnginePn(area_mm2, fc_mpa), phi_)

(***************************************************************************)
(* generate_signature: json.dumps(payload, sort_keys=True), SHA-256 of the *)
(* encoded text, the first 20 characters of the hexadecimal digest.        *)
(***************************************************************************)
\* the code points of a payload key, which is what sort_keys compares
KeyCode(key) ==
    CASE key = "Load" -> <<76, 111, 97, 100>>
      [] key = "Gamma" -> <<71, 97, 109, 109, 97>>
      [] key = "Area" -> <<65, 114, 101, 97>>
      [] key = "fc" -> <<102, 99>>
      [] key = "Phi" -> <<80, 104, 105>>
      [] key = "Pu" -> <<80, 117>>
      [] key = "Pn" -> <<80, 110>>
      [] key = "phiPn" -> <<112, 104, 105, 80, 110>>
      [] key = "DCR" -> <<68, 67, 82>>
      [] key = "Status" -> <<83, 116, 97, 116, 117, 115>>

RECURSIVE SeqLess(_, _)
SeqLess(a, b) ==
    IF b = <<>> THEN FALSE
    ELSE IF a = <<>> THEN TRUE
    ELSE IF Head(a) # Head(b) THEN Head(a) < Head(b)
    ELSE SeqLess(Tail(a), Tail(b))

RECURSIVE SortedKeys(_)
SortedKeys(S) ==
    IF S = {} THEN <<>>
    ELSE LET k == CHOOSE x \in S :
                    \A y \in S \ {x} : SeqLess(KeyCode(x), KeyCode(y))
         IN  <<k>> \o SortedKeys(S \ {k})

\* The JSON text of a float is its repr: "NaN", "Infinity", "-Infinity", or the
\* shortest decimal that reads back as the same binary64 value.  The decimal is
\* kept symbolic: one text per value, "-0.0" and "0.0" being different texts.
JsonFloat(x) ==
    IF IsNaN(x) THEN <<"NaN">>
    ELSE IF IsInf(x) THEN (IF x.s = 1 THEN <<"-Infinity">> ELSE <<"Infinity">>)
    ELSE <<"repr", x.s, x.m, x.e>>

JsonStr(v) == <<"str", v>>

JsonValue(key, v) ==
    IF key \in {"Status"} THEN JsonStr(v)
    ELSE JsonFloat(v)

\* json.dumps(payload, sort_keys=True): the items in the order of the keys
json_dumps(payload) ==
    LET ks == SortedKeys(DOMAIN payload)
    IN  [i \in 1..Len(ks) |-> <<ks[i], JsonValue(ks[i], payload[ks[i]])>>]

\* hashlib.sha256(raw.encode()).hexdigest(): 64 lowercase hexadecimal
\* characters.  The digest is symbolic and collision-free: a text of
\* hexadecimal characters is the digest it is cut from and how many of its
\* leading characters are kept.
DigestLen == 64
Sha256Hex(raw) == [hexdigest_of |-> raw, chars |-> DigestLen]

\* text[:n]
Prefix(text, n) == [text EXCEPT !.chars = IF n < @ THEN n ELSE @]

SigLen == 20
\* a signature that also hashes the time of the run
generate_signature_timed(payload) ==
    Prefix(Sha256Hex(<<json_dumps(payload), clock>>), SigLen)
generate_signature(payload) == Prefix(Sha256Hex(json_dumps(payload)), SigLen)

NoText == [hexdigest_of |-> <<>>, chars |-> 0]

(***************************************************************************)
(* The script (src/app_ui.py, lines 89-186).  Streamlit runs it from the   *)
(* top at every interaction: the widgets keep their values, every other    *)
(* name is bound anew, and the page shows what the last run wrote.         *)
(***************************************************************************)
vars == <<load, gamma, area, fc, phi, run, pc, errors, shown, Pu, Pn, phi_Pn,
          dc_ratio, status, result_payload, signature, report, exception,
          calls, clock, last>>

widgets == <<load, gamma, area, fc, phi>>
locals == <<errors, shown, Pu, Pn, phi_Pn, dc_ratio, status, result_payload,
            signature, report, exception, calls>>

MaxClock == 1

NoPayload == [Status |-> ""]
NoReport == [Status |-> ""]
NoRun == [Status |-> ""]

\* st.number_input(label, min_value, max_value, value): the value is a finite
\* float within the widget's limits
WidgetNames == {"load", "gamma", "area", "fc", "phi"}
WidgetMin ==
    [load |-> FInt(0), gamma |-> FInt(1), area |-> FInt(1), fc |-> FInt(1),
     phi |-> FDec(1, 10)]
WidgetMax == [phi |-> FInt(1)]
WidgetDefault ==
    [load |-> FInt(1000), gamma |-> FDec(14, 10), area |-> FInt(300000),
     fc |-> FInt(28), phi |-> FDec(65, 100)]
\* a widget without limits
WidgetAccepts_unlimited(w, v) == IsFinite(v)
WidgetAccepts(w, v) ==
    /\ IsFinite(v)
    /\ FLe(WidgetMin[w], v)
    /\ w \in DOMAIN WidgetMax => FLe(v, WidgetMax[w])

\* the values a user types into the form
TypedValues ==
    [load |-> {FInt(-5), FInt(0), FInt(1000), FInt(5000)},
     gamma |-> {FPow2(-1), FDec(14, 10)},
     area |-> {FInt(0), FInt(1), FInt(300000)},
     fc |-> {FInt(0), FInt(28), FPow2(1023)},
     phi |-> {FDec(1, 10), FDec(65, 100), FInt(1), FDec(10000001, 10000000)}]

\* the arguments a direct caller of the core may pass: any float
AnyValues ==
    [load |-> {FInt(-5), FInt(0), FInt(1000), FInt(5000), FInt(3315),
               FPow2(1023), NaN},
     gamma |-> {FPow2(-1), FInt(1), FDec(14, 10), FInt(2)},
     area |-> {FInt(0), FInt(300000), FPow2(-600), FPow2(1023)},
     fc |-> {FInt(0), FInt(28), FPow2(-600), FPow2(1023)},
     phi |-> {FInt(0), FDec(65, 100), FInt(1), FDec(10000001, 10000000), NaN}]

Init ==
    /\ load = WidgetDefault.load
    /\ gamma = WidgetDefault.gamma
    /\ area = WidgetDefault.area
    /\ fc = WidgetDefault.fc
    /\ phi = WidgetDefault.phi
    /\ run = FALSE
    /\ pc = "idle"
    /\ errors = <<>>
    /\ shown = <<>>
    /\ Pu = Unset /\ Pn = Unset /\ phi_Pn = Unset /\ dc_ratio = Unset
    /\ status = ""
    /\ result_payload = NoPayload
    /\ signature = NoText
    /\ report = NoReport
    /\ exception = ""
    /\ calls = <<>>
    /\ clock = 0
    /\ last = NoRun

\* a fresh run of the script: nothing is bound, nothing is written
Fresh ==
    /\ errors' = <<>>
    /\ shown' = <<>>
    /\ Pu' = Unset /\ Pn' = Unset /\ phi_Pn' = Unset /\ dc_ratio' = Unset
    /\ status' = ""
    /\ result_payload' = NoPayload
    /\ signature' = NoText
    /\ report' = NoReport
    /\ exception' = ""
    /\ calls' = <<>>

\* The user changes a widget: the script runs with run = False, so the
\* execution block is skipped and the page shows the form alone.
SetInput(w, v) ==
    /\ pc = "idle"
    /\ load' = IF w = "load" THEN v ELSE load
    /\ gamma' = IF w = "gamma" THEN v ELSE gamma
    /\ area' = IF w = "area" THEN v ELSE area
    /\ fc' = IF w = "fc" THEN v ELSE fc
    /\ phi' = IF w = "phi" THEN v ELSE phi
    /\ widgets' # widgets
    /\ run' = FALSE
    /\ Fresh
    /\ UNCHANGED <<pc, clock, last>>

\* through the form, where the widget refuses a value outside its limits
TypeInput ==
    \E w \in WidgetNames : \E v \in TypedValues[w] :
        WidgetAccepts(w, v) /\ SetInput(w, v)

\* a caller that runs the execution block on arbitrary floats
PassInput == \E w \in WidgetNames : \E v \in AnyValues[w] : SetInput(w, v)

Tick ==
    /\ pc = "idle"
    /\ clock < MaxClock
    /\ clock' = clock + 1
    /\ UNCHANGED <<widgets, run, pc, locals, last>>

\* line 100 and 108: the button is clicked, the script runs with run = True
ClickRun ==
    /\ pc = "idle"
    /\ run' = TRUE
    /\ pc' = "validate"
    /\ Fresh
    /\ UNCHANGED <<widgets, clock, last>>

\* lines 112 and 117: the engine runs only when the list is empty
\* a caller that runs the engine whatever the validator returned
AfterValidate_ignore(errs) == "engine"
AfterValidate(errs) == IF errs # <<>> THEN "errors" ELSE "engine"

\* lines 110-112
Validate ==
    /\ pc = "validate"
    /\ errors' = validate_inputs(load, area, fc, phi, gamma)
    /\ calls' = Append(calls, "validate_inputs")
    /\ pc' = AfterValidate(errors')
    /\ UNCHANGED <<widgets, run, shown, Pu, Pn, phi_Pn, dc_ratio, status,
                   result_payload, signature, report, exception, clock, last>>

\* lines 113-115: one st.write per message; the run ends after the last one
WriteError ==
    /\ pc = "errors"
    /\ Len(shown) < Len(errors)
    /\ shown' = Append(shown, errors[Len(shown) + 1])
    /\ pc' = IF Len(shown') = Len(errors) THEN "idle" ELSE "errors"
    /\ run' = (pc' # "idle")
    /\ UNCHANGED <<widgets, errors, Pu, Pn, phi_Pn, dc_ratio, status,
                   result_payload, signature, report, exception, calls, clock,
                   last>>

\* line 119; an exception raised by the engine ends the run
Engine ==
    /\ pc = "engine"
    /\ \E r \in {structural_engine(load, area, fc, phi, gamma)} :
           /\ calls' = Append(calls, "structural_engine")
           /\ exception' = r.exc
           /\ IF r.exc # ""
              THEN /\ pc' = "idle"
                   /\ run' = FALSE
                   /\ UNCHANGED <<Pu, Pn, phi_Pn, dc_ratio, status>>
              ELSE /\ pc' = "payload"
                   /\ Pu' = r.Pu
                   /\ Pn' = r.Pn
                   /\ phi_Pn' = r.phi_Pn
                   /\ dc_ratio' = r.dc_ratio
                   /\ status' = r.status
                   /\ UNCHANGED run
    /\ UNCHANGED <<widgets, errors, shown, result_payload, signature, report,
                   clock, last>>

\* a payload built from the values as displayed
BuildPayload_rounded ==
    [Load |-> load, Gamma |-> gamma, Area |-> area, fc |-> fc, Phi |-> phi,
     Pu |-> PyRound(Pu, 3), Pn |-> PyRound(Pn, 3),
     phiPn |-> PyRound(phi_Pn, 3), DCR |-> PyRound(dc_ratio, 4),
     Status |-> status]

\* lines 121-132
BuildPayload ==
    [Load |-> load, Gamma |-> gamma, Area |-> area, fc |-> fc, Phi |-> phi,
     Pu |-> Pu, Pn |-> Pn, phiPn |-> phi_Pn, DCR |-> dc_ratio, Status |-> status]

Payload ==
    /\ pc = "payload"
    /\ result_payload' = BuildPayload
    /\ pc' = "sign"
    /\ UNCHANGED <<widgets, run, errors, shown, Pu, Pn, phi_Pn, dc_ratio, status,
                   signature, report, exception, calls, clock, last>>

\* line 134
Sign ==
    /\ pc = "sign"
    /\ signature' = generate_signature(result_payload)
    /\ calls' = Append(calls, "generate_signature")
    /\ pc' = "report"
    /\ UNCHANGED <<widgets, run, errors, shown, Pu, Pn, phi_Pn, dc_ratio, status,
                   result_payload, report, exception, clock, last>>

\* lines 140-172: the values are rounded for display only
BuildReport ==
    [Pu |-> PyRound(Pu, 3), Pn |-> PyRound(Pn, 3), phiPn |-> PyRound(phi_Pn, 3),
     DCR |-> PyRound(dc_ratio, 4),
     Verdict |-> IF status = "PASS"
                 THEN "Structural capacity requirement satisfied."
                 ELSE "Structural capacity exceeded.",
     Timestamp |-> clock, Signature |-> signature, Status |-> status]

Report(keep) ==
    /\ pc = "report"
    /\ report' = BuildReport
    /\ pc' = "idle"
    /\ run' = FALSE
    /\ last' = IF keep
               THEN [inputs |-> widgets, payload |-> result_payload,
                     signature |-> signature, Timestamp |-> clock,
                     Status |-> status]
               ELSE last
    /\ UNCHANGED <<widgets, errors, shown, Pu, Pn, phi_Pn, dc_ratio, status,
                   result_payload, signature, exception, calls, clock>>

\* the application: the form, the button and the script
Next ==
    \/ TypeInput
    \/ Tick
    \/ ClickRun
    \/ Validate
    \/ WriteError
    \/ Engine
    \/ Payload
    \/ Sign
    \/ Report(TRUE)

Spec == Init /\ [][Next]_vars

\* the execution block run on arbitrary floats, one run at a time
NextCore ==
    \/ PassInput
    \/ ClickRun
    \/ Validate
    \/ WriteError
    \/ Engine
    \/ Payload
    \/ Sign
    \/ Report(FALSE)

SpecCore == Init /\ [][NextCore]_vars

(***************************************************************************)
(* Properties.                                                             *)
(***************************************************************************)
Range(q) == {q[i] : i \in DOMAIN q}
Count(q, x) == Cardinality({i \in DOMAIN q : q[i] = x})
ToInt(b) == IF b THEN 1 ELSE 0

\* validate_inputs has returned in this run: errors holds its result
Validated == Len(calls) >= 1
\* structural_engine has been called in this run
EngineCalled == Len(calls) >= 2
\* ... and has returned its tuple
EngineReturned == EngineCalled /\ exception = ""

\* the five constraints of a valid input set
AllConstraints ==
    /\ FLt(Lit0, load)
    /\ FLt(Lit0, area)
    /\ FLt(Lit0, fc)
    /\ FLt(Lit0, phi) /\ FLe(phi, Lit1)
    /\ FLe(Lit1, gamma)

\* C1: validate_inputs returns the empty list if and only if load > 0,
\* area > 0, fc > 0, 0 < phi <= 1 and gamma >= 1.
C1_EmptyIffValid == Validated => (errors = <<>> <=> AllConstraints)

\* C2: every rule is checked whatever the others say: the list holds a
\* rule's message once if the rule is violated and not at all otherwise, so
\* it has as many messages as there are violated rules.
C2_AllRulesIndependent ==
    Validated =>
        /\ Count(errors, MsgLoad) = ToInt(FLe(load, Lit0))
        /\ Count(errors, MsgArea) = ToInt(FLe(area, Lit0))
        /\ Count(errors, MsgFc) = ToInt(FLe(fc, Lit0))
        /\ Count(errors, MsgPhi) = ToInt(~(FLt(Lit0, phi) /\ FLe(phi, Lit1)))
        /\ Count(errors, MsgGamma) = ToInt(FLt(gamma, Lit1))
        /\ Len(errors) = ToInt(FLe(load, Lit0)) + ToInt(FLe(area, Lit0))
                         + ToInt(FLe(fc, Lit0))
                         + ToInt(~(FLt(Lit0, phi) /\ FLe(phi, Lit1)))
                         + ToInt(FLt(gamma, Lit1))
        /\ (load = FInt(-5) /\ FLt(Lit0, area) /\ FLt(Lit0, fc) /\ FLt(Lit0, phi)
            /\ FLe(phi, Lit1) /\ FLe(Lit1, gamma)) => errors = <<MsgLoad>>
        /\ (FLe(area, Lit0) /\ FLe(fc, Lit0)) => {MsgArea, MsgFc} \subseteq Range(errors)

\* area <= 0 and fc <= 0 together, the other three valid: both messages
C2_Witness == Validated /\ errors = <<MsgArea, MsgFc>>

Phi1p0000001 == FDec(10000001, 10000000)

\* C3: phi = 0 and every phi > 1 get the phi message, phi = 1 does not.
C3_PhiBounds ==
    Validated =>
        /\ (FEq(phi, Lit0) \/ FLt(Lit1, phi)) => MsgPhi \in Range(errors)
        /\ FEq(phi, Lit1) => MsgPhi \notin Range(errors)

C3_Witness ==
    /\ Validated
    /\ phi = Phi1p0000001
    /\ errors = <<MsgPhi>>

\* C4: on every accepted input on which it returns, structural_engine gives
\* PASS if and only if dcRatio <= 1, which is to say Pu <= phiPn, and FAIL
\* otherwise; when Pu equals phiPn, dcRatio is exactly 1 and the status is PASS.
C4_PassIffWithinCapacity ==
    (EngineReturned /\ errors = <<>>) =>
        /\ status \in {"PASS", "FAIL"}
        /\ status = "PASS" <=> FLe(dc_ratio, Lit1)
        /\ status = "PASS" <=> FLe(Pu, phi_Pn)
        /\ FEq(Pu, phi_Pn) => (dc_ratio = Lit1 /\ status = "PASS")

\* C5: on every accepted input phiPn > 0, so the division is defined and
\* structural_engine does not fail.
C5_CapacityPositive ==
    (EngineCalled /\ errors = <<>>) =>
        /\ exception = ""
        /\ FLt(Lit0, phi_Pn)

\* C6: a run whose validation returns messages ends there: it writes every
\* message and calls neither structural_engine nor generate_signature, and
\* builds no payload.  The engine and the signature run only after an empty
\* validation, in the order validate, engine, payload, signature.
C6_HaltOnErrors ==
    /\ calls \in {<<>>, <<"validate_inputs">>,
                   <<"validate_inputs", "structural_engine">>,
                   <<"validate_inputs", "structural_engine",
                     "generate_signature">>}
    /\ EngineCalled => errors = <<>>
    /\ (Validated /\ errors # <<>>) =>
           /\ calls = <<"validate_inputs">>
           /\ result_payload = NoPayload /\ signature = NoText
           /\ report = NoReport
           /\ pc \in {"errors", "idle"}
           /\ shown = SubSeq(errors, 1, Len(shown))
           /\ pc = "idle" => shown = errors
    /\ result_payload # NoPayload => (EngineReturned /\ status # "")
    /\ signature # NoText =>
           (result_payload # NoPayload /\ Len(calls) = 3)
    /\ Len(calls) = 3 => signature # NoText
    /\ report # NoReport => signature # NoText
    /\ pc = "payload" => (EngineReturned /\ result_payload = NoPayload)
    /\ pc = "sign" => (result_payload # NoPayload /\ signature = NoText)

C6_Witness ==
    /\ pc = "idle"
    /\ Len(errors) >= 2
    /\ shown = errors
    /\ calls = <<"validate_inputs">>



F1000 == FInt(1000)
F5000 == FInt(5000)
F300000 == FInt(300000)
F28 == FInt(28)
F0p65 == FDec(65, 100)
F1p4 == FDec(14, 10)
F1400 == FInt(1400)
F7000 == FInt(7000)
F7140 == FInt(7140)
F4641 == FInt(4641)
ScenarioRest == gamma = F1p4 /\ area = F300000 /\ fc = F28 /\ phi = F0p65

\* C7: Pu = gamma * load, Pn = 0.85 * fc * area / 1000, phiPn = phi * Pn,
\* dcRatio = Pu / phiPn, none of them rounded; load 1000 (gamma 1.4, area
\* 300000, fc 28, phi 0.65) gives 1400, 7140, 4641 and PASS, load 5000 gives
\* 7000, 7140, 4641 and FAIL.
C7_EngineFormulas ==
    EngineReturned =>
        /\ Pu = FMul(gamma, load)
        /\ Pn = FDiv(FMul(FMul(Lit085, fc), area), Lit1000)
        /\ phi_Pn = FMul(phi, Pn)
        /\ dc_ratio = FDiv(Pu, phi_Pn)
        /\ (load = F1000 /\ ScenarioRest) =>
               /\ Pu = F1400 /\ Pn = F7140 /\ phi_Pn = F4641
               /\ dc_ratio = FDiv(F1400, F4641)
               /\ dc_ratio # PyRound(dc_ratio, 4)
               /\ status = "PASS"
        /\ (load = F5000 /\ ScenarioRest) =>
               /\ Pu = F7000 /\ Pn = F7140 /\ phi_Pn = F4641
               /\ dc_ratio = FDiv(F7000, F4641)
               /\ status = "FAIL"

C7_Witness ==
    /\ EngineReturned
    /\ load = F5000 /\ ScenarioRest
    /\ status = "FAIL"

\* C8: two runs on the same five inputs give the same Pu, Pn, phiPn, dcRatio
\* and status and the same signature, whatever ran before and whatever the
\* time is; the signature is 20 characters of the hexadecimal digest.
C8_Deterministic ==
    /\ (EngineReturned /\ last # NoRun /\ last.inputs = widgets) =>
           /\ last.payload.Pu = Pu /\ last.payload.Pn = Pn
           /\ last.payload.phiPn = phi_Pn /\ last.payload.DCR = dc_ratio
           /\ last.payload.Status = status
    /\ signature # NoText =>
           /\ signature.chars = 20
           /\ signature.hexdigest_of = json_dumps(result_payload)
           /\ (last # NoRun /\ last.inputs = widgets) =>
                  last.signature = signature

\* the same inputs run again at another time, after a run on other inputs
C8_Witness ==
    /\ pc = "report"
    /\ last # NoRun
    /\ last.inputs = widgets
    /\ last.Timestamp # clock

PayloadKeys ==
    {"Load", "Gamma", "Area", "fc", "Phi", "Pu", "Pn", "phiPn", "DCR", "Status"}

F0p1 == FDec(1, 10)

\* C10: through the form (load >= 0, gamma >= 1, area >= 1, fc >= 1,
\* 0.1 <= phi <= 1) the only validation failure is load = 0, with the load
\* message alone; every other run goes through structural_engine and
\* generate_signature with phiPn > 0.
C10_FormInputs ==
    /\ IsFinite(load) /\ FLe(Lit0, load)
    /\ IsFinite(gamma) /\ FLe(Lit1, gamma)
    /\ IsFinite(area) /\ FLe(Lit1, area)
    /\ IsFinite(fc) /\ FLe(Lit1, fc)
    /\ IsFinite(phi) /\ FLe(F0p1, phi) /\ FLe(phi, Lit1)
    /\ Validated =>
           IF FEq(load, Lit0) THEN errors = <<MsgLoad>> ELSE errors = <<>>
    /\ (EngineCalled /\ pc # "engine") => (exception = "" /\ FLt(Lit0, phi_Pn))
    /\ (Validated /\ errors = <<>> /\ pc = "idle") =>
           /\ calls = <<"validate_inputs", "structural_engine",
                        "generate_signature">>
           /\ signature # NoText
           /\ report # NoReport

C10_Witness ==
    /\ pc = "idle"
    /\ FEq(load, Lit0)
    /\ shown = <<MsgLoad>>

=============================================================================
